---- MODULE Spec2Model ----
(***************************************************************************)
(* Model of SarvamSTTService (src/sarvam_stt.py): the segmented            *)
(* speech-to-text engine.  One engine instance, one run_stt generator at a *)
(* time (the pipeline awaits each generator to exhaustion), running        *)
(* concurrently with stop(), cancel(), set_model() and set_language().     *)
(* Every await / yield of the source is a position of the corresponding    *)
(* process; the code between two of them is one atomic action.             *)
(*                                                                         *)
(* The HTTP layer (aiohttp) is the environment: it answers a request with  *)
(* a status, a timeout, a client error or another exception, and a read    *)
(* that is pending on a closed session fails with a client error.  The     *)
(* metrics collaborator (start_/stop_ metrics) is total: it never raises.  *)
(***************************************************************************)
EXTENDS Integers, Sequences, FiniteSets, TLC

\* ---------------------------------------------------------------- bounds
MaxSessions == 2      \* sessions the engine may create in one behaviour

\* ------------------------------------------------------------- constants
NoSession == 0        \* self._session is None
InjectedId == 1       \* the aiohttp_session passed to the constructor
OkStatus == 200

Created(n) == (InjectedId + 1)..(InjectedId + n)

Segments == {<<>>, <<1>>}
Models == {"saarika:v2.5", "saarika:v2"}
\* members of pipecat's Language enum used here
Languages == {"en-IN", "hi-IN"}
Statuses == {200, 429, 500}
ErrorBodies == {"rate limited", "oops"}
Absent == "absent"

SARVAM_STT_DEFAULT_MODEL == "saarika:v2.5"
SARVAM_STT_DEFAULT_LANGUAGE == "en-IN"

\* Bodies of a 200 response, as response.json() returns or raises on them.
\*   object: a JSON object, with or without transcript / language_code
\*   list:   valid JSON that is not an object
\*   content_type: aiohttp.ContentTypeError (a ClientError)
\*   not_json: json.JSONDecodeError
Payloads ==
    [kind : {"object"}, transcript : {Absent, "hello world"},
     language_code : {Absent, "", "en-IN", "hi-IN", "xx-ZZ"}]
    \cup [kind : {"list", "content_type", "not_json"}, transcript : {Absent},
          language_code : {Absent}]

NoPayload == [kind |-> "none", transcript |-> Absent, language_code |-> Absent]
NoLog == [level |-> "none", kind |-> "none", status |-> 0, text |-> ""]
NoForm == [file |-> <<>>, language_code |-> "", model |-> "", extra |-> <<>>]

\* bound on the number of entries of the extra-parameters mapping
MaxExtra == 2

\* keys of the extra-parameters mapping: the three reserved names and two others
ExtraKeys == {"file", "language_code", "model", "prompt", "with_timestamps"}

\* values of the extra-parameters mapping, each with its Python type, its str()
\* and its json.dumps() text: None, "", "hi", True, [], {"a": 1}
ExtraValues ==
    { [type |-> "NoneType", str |-> "None", json |-> "null"],
      [type |-> "str", str |-> "", json |-> "\"\""],
      [type |-> "str", str |-> "hi", json |-> "\"hi\""],
      [type |-> "bool", str |-> "True", json |-> "true"],
      [type |-> "list", str |-> "[]", json |-> "[]"],
      [type |-> "dict", str |-> "{'a': 1}", json |-> "{\"a\": 1}"] }

\* a dict in insertion order: a sequence of entries with distinct keys
ExtraMappings ==
    UNION { { m \in [1..n -> [key : ExtraKeys, value : ExtraValues]] :
                \A i, j \in 1..n : m[i].key = m[j].key => i = j } : n \in 0..MaxExtra }

\* lines 92, 36-37: the mapping of an engine built without extra parameters
NoExtraParams == <<>>

\* bound on the number of calls that create a metrics instance
MaxCalls == 3

\* the module whose Sentry helpers the process runs: bot.py is an entry point
\* that does not import tracing.py, and tracing.py is imported by nothing here
SentryModules == {"bot", "tracing"}

\* values of SENTRY_METRICS_ENABLED (Absent: not set)
EnabledValues == {Absent, "", "1", "TRUE ", "0", "maybe"}

\* values of SENTRY_DSN: not set, blank, a DSN sentry_sdk accepts, one it rejects
DsnValues == {"", "  ", "https://k@sentry.example/1", "not-a-dsn"}

\* bot.py:34-35, tracing.py:14-15: the module globals before any call, with the
\* environment the process runs under
FreshSentry(module, enabledRaw, dsn, deps) ==
    [module |-> module, enabledRaw |-> enabledRaw, dsn |-> dsn, deps |-> deps,
     attempted |-> FALSE, cls |-> "None",
     calls |-> 0, attempts |-> 0, inits |-> 0, last |-> "nothing"]

\* the process in which no Sentry variable is set
NoSentry == FreshSentry("bot", Absent, "", FALSE)

\* line 30
SARVAM_STT_DEFAULT_BASE_URL == "https://api.sarvam.ai/speech-to-text"

\* constructor arguments: not passed (None, written Absent), empty, a value
ApiKeyArgs == {Absent, "", "key-arg"}
ModelArgs == {Absent, "", "saarika:v2"}
LanguageArgs == {Absent, "", "hi-IN"}
BaseUrlArgs == {Absent, "", "https://proxy.example/stt/"}
ExtraParamsArgs ==
    { [passed |-> FALSE, items |-> <<>>],
      [passed |-> TRUE, items |-> <<>>],
      [passed |-> TRUE,
       items |-> <<[key |-> "prompt",
                    value |-> [type |-> "str", str |-> "hi", json |-> "\"hi\""]]>>] }

\* environment: SARVAM_API_KEY, SARVAM_STT_MODEL, SARVAM_STT_LANGUAGE,
\* SARVAM_STT_BASE_URL, SARVAM_STT_EXTRA_PARAMS_JSON
ApiKeyEnvs == {Absent, "", "key-env"}
ModelEnvs == {Absent, "saarika:flash"}
LanguageEnvs == {Absent, "ta-IN"}
BaseUrlEnvs == {Absent, "https://env.example/stt"}
ExtraParamsEnvs == {Absent, "  ", "{\"with_timestamps\": true}", "not json", "[1]"}

\* __init__ before it has run, for given arguments and environment
FreshCtor(args, env) ==
    [args |-> args, env |-> env, state |-> "called",
     resolved_api_key |-> Absent, resolved_model |-> Absent,
     resolved_language |-> Absent, resolved_base_url |-> Absent,
     resolved_extra_params |-> <<>>]

CtorArgs ==
    [api_key : ApiKeyArgs, model : ModelArgs, language : LanguageArgs,
     base_url : BaseUrlArgs, extra_params : ExtraParamsArgs]

CtorEnvs ==
    [api_key : ApiKeyEnvs, model : ModelEnvs, language : LanguageEnvs,
     base_url : BaseUrlEnvs, extra_params : ExtraParamsEnvs]

\* the engine built with a key only, under an empty environment
DefaultCtor ==
    [args |-> [api_key |-> "key-arg", model |-> Absent, language |-> Absent,
               base_url |-> Absent, extra_params |-> [passed |-> FALSE, items |-> <<>>]],
     env |-> [api_key |-> Absent, model |-> Absent, language |-> Absent,
              base_url |-> Absent, extra_params |-> Absent],
     state |-> "built",
     resolved_api_key |-> "key-arg", resolved_model |-> SARVAM_STT_DEFAULT_MODEL,
     resolved_language |-> SARVAM_STT_DEFAULT_LANGUAGE,
     resolved_base_url |-> SARVAM_STT_DEFAULT_BASE_URL,
     resolved_extra_params |-> <<>>]

VARIABLES
    injected,       \* whether a session was passed to the constructor
    extra_params,   \* self._extra_params
    sentry,         \* the process's Sentry setup: environment and module globals
    ctor,           \* __init__: its arguments, the environment and its locals
    session,        \* self._session
    own,            \* self._own_session
    nCreated,       \* number of ClientSession() objects the engine constructed
    closed,         \* sessions whose .closed is true
    engineClosed,   \* sessions on which the engine has called close()
    language_code,  \* self._language_code
    model_name,     \* self.model_name
    settings,       \* self._settings
    phase,          \* lifecycle phase: Idle, Started, Stopped, Cancelled
    sub,            \* the run_stt generator: position and locals
    closer          \* position of stop() and of cancel() inside _close_session

vars == <<injected, extra_params, sentry, ctor, session, own, nCreated, closed, engineClosed, language_code,
          model_name, settings, phase, sub, closer>>

sessVars == <<session, own, nCreated, closed, engineClosed>>
setVars == <<language_code, model_name, settings>>

\* --------------------------------------------------------------- helpers

\* _normalize_language
_normalize_language(language) ==
    IF language = "" \/ language = Absent THEN SARVAM_STT_DEFAULT_LANGUAGE
    ELSE language

\* mutant of LanguageOrNone: the code is passed on without the enum lookup
LanguageUnchecked(code) == code

\* Language(code): the enum lookup, "None" when it raises ValueError
LanguageOrNone(code) == IF code \in Languages THEN code ELSE "None"

IdleSub ==
    [pc |-> "idle", audio |-> <<>>, session |-> NoSession, form |-> NoForm,
     requests |-> 0, status |-> 0, error_text |-> "", payload |-> NoPayload,
     err |-> "none",
     events |-> <<>>, log |-> NoLog,
     ttfbRunning |-> FALSE, procRunning |-> FALSE, ttfbStops |-> 0, procStops |-> 0,
     cancelHit |-> "no"]

\* __init__, lines 93-108: the engine after construction
InitEngine ==
    /\ injected \in BOOLEAN
    /\ session = IF injected THEN InjectedId ELSE NoSession
    /\ own = FALSE
    /\ nCreated = 0
    /\ closed = {}
    /\ engineClosed = {}
    /\ language_code = SARVAM_STT_DEFAULT_LANGUAGE
    /\ model_name = SARVAM_STT_DEFAULT_MODEL
    /\ settings = [language |-> language_code, model |-> model_name, sample_rate |-> FALSE]
    /\ phase = "Idle"
    /\ sub = IdleSub
    /\ closer = [stop |-> "idle", cancel |-> "idle"]

Init ==
    /\ InitEngine
    /\ extra_params = NoExtraParams
    /\ sentry = NoSentry
    /\ ctor = DefaultCtor

\* ------------------------------------------------------ session handling

\* _ensure_session, line 215: the current session can be returned
SessionUsable == session # NoSession /\ session \notin closed

\* mutant of EnsureSession: the new session is stored without setting the flag
EnsureSessionNoFlag ==
    IF SessionUsable
    THEN [session |-> session, own |-> own, nCreated |-> nCreated]
    ELSE [session |-> InjectedId + nCreated + 1, own |-> own, nCreated |-> nCreated + 1]

\* _ensure_session: the session returned and the fields it leaves behind
EnsureSession ==
    IF SessionUsable
    THEN [session |-> session, own |-> own, nCreated |-> nCreated]
    ELSE [session |-> InjectedId + nCreated + 1, own |-> TRUE, nCreated |-> nCreated + 1]

\* mutant of CloseGuard: the ownership flag is not consulted
CloseGuardNoOwn == session # NoSession /\ session \notin closed

\* _close_session, line 222: the condition under which close() is called
CloseGuard == own /\ session # NoSession /\ session \notin closed

\* the lifecycle phases after stop() or cancel()
Terminal == {"Stopped", "Cancelled"}

\* positions of run_stt from obtaining the session to having consumed the response
Pending == {"starting", "await_status", "read_text", "read_json"}

\* _close_session up to its await: aiohttp marks the session closed as soon as
\* close() is called, the assignments of lines 224-225 run after the await.
CloseSessionCall(p) ==
    IF CloseGuard
    THEN /\ closed' = closed \cup {session}
         /\ engineClosed' = engineClosed \cup {session}
         /\ closer' = [closer EXCEPT ![p] = "closing"]
    ELSE UNCHANGED <<closed, engineClosed, closer>>

\* ------------------------------------------------------------- lifecycle

\* start(): records the negotiated sample rate
Start ==
    /\ phase = "Idle"
    /\ phase' = "Started"
    /\ settings' = [settings EXCEPT !.sample_rate = TRUE]
    /\ UNCHANGED <<injected, extra_params, sentry, ctor, sessVars, language_code, model_name, sub, closer>>

\* stop(): super().stop(), then _close_session up to its await
Stop ==
    /\ closer.stop = "idle"
    /\ phase' = "Stopped"
    /\ CloseSessionCall("stop")
    /\ UNCHANGED <<injected, extra_params, sentry, ctor, session, own, nCreated, setVars, sub>>

\* cancel(): super().cancel(), then _close_session up to its await
Cancel ==
    /\ closer.cancel = "idle"
    /\ phase' = "Cancelled"
    /\ CloseSessionCall("cancel")
    /\ sub' = IF sub.pc \in Pending /\ sub.cancelHit # "closed"
              THEN [sub EXCEPT !.cancelHit =
                        IF CloseGuard /\ session = sub.session THEN "closed" ELSE "skipped"]
              ELSE sub
    /\ UNCHANGED <<injected, extra_params, sentry, ctor, session, own, nCreated, setVars>>

\* mutant of CloseDone: the handle is kept after the close
CloseDoneKeepsHandle(p) ==
    /\ closer[p] = "closing"
    /\ own' = FALSE
    /\ closer' = [closer EXCEPT ![p] = "idle"]
    /\ UNCHANGED <<injected, extra_params, sentry, ctor, session, nCreated, closed, engineClosed, setVars, phase, sub>>

\* _close_session after its await, lines 224-225
CloseDone(p) ==
    /\ closer[p] = "closing"
    /\ session' = NoSession
    /\ own' = FALSE
    /\ closer' = [closer EXCEPT ![p] = "idle"]
    /\ UNCHANGED <<injected, extra_params, sentry, ctor, nCreated, closed, engineClosed, setVars, phase, sub>>

\* The owner of the injected session closes it (it is not the engine's to close).
OwnerClose ==
    /\ injected
    /\ InjectedId \notin closed
    /\ closed' = closed \cup {InjectedId}
    /\ UNCHANGED <<injected, extra_params, sentry, ctor, session, own, nCreated, engineClosed, setVars, phase, sub,
                   closer>>

\* -------------------------------------------------------------- settings

\* set_model
SetModel(m) ==
    /\ model_name' = m
    /\ settings' = [settings EXCEPT !.model = m]
    /\ UNCHANGED <<injected, extra_params, sentry, ctor, sessVars, language_code, phase, sub, closer>>

\* set_language
SetLanguage(l) ==
    /\ language_code' = _normalize_language(l)
    /\ settings' = [settings EXCEPT !.language = _normalize_language(l)]
    /\ UNCHANGED <<injected, extra_params, sentry, ctor, sessVars, model_name, phase, sub, closer>>

\* --------------------------------------------------------------- run_stt

\* mutant of EmptySegment: the guard is missing
EmptySegmentNever(audio) == FALSE

\* line 136: `if not audio`
EmptySegment(audio) == Len(audio) = 0

\* line 148: the names form.add_field was already called with
ReservedKeys == {"file", "language_code", "model"}

\* line 148: `key in {...} or value is None`
SkipsEntry(entry) == entry.key \in ReservedKeys \/ entry.value.type = "NoneType"

\* lines 150-155: the field added for an entry that is not skipped
ExtraField(entry) ==
    IF entry.value.type \in {"dict", "list"}
    THEN [name |-> entry.key, value |-> entry.value.json,
          content_type |-> "application/json"]
    ELSE IF entry.value.type \in {"bool", "int", "float"}
    THEN [name |-> entry.key, value |-> entry.value.json, content_type |-> Absent]
    ELSE [name |-> entry.key, value |-> entry.value.str, content_type |-> Absent]

\* lines 147-155: the loop over self._extra_params.items()
RECURSIVE ExtraFields(_)
ExtraFields(m) ==
    IF m = <<>> THEN <<>>
    ELSE (IF SkipsEntry(Head(m)) THEN <<>> ELSE <<ExtraField(Head(m))>>)
         \o ExtraFields(Tail(m))

\* lines 142-155: the form fields read from the engine when the request is built
BuildForm(audio) ==
    [file |-> audio, language_code |-> language_code, model |-> model_name,
     extra |-> ExtraFields(extra_params)]

\* mutant of Catch: no catch-all clause
CatchNoSafeguard(exc) ==
    IF exc = "TimeoutError" THEN "timeout"
    ELSE IF exc \in {"ClientError", "ContentTypeError"} THEN "connection"
    ELSE "uncaught"

\* The except clauses of lines 199-210, in order, as the handler an exception
\* class reaches; an exception none of them names leaves the generator.
Catch(exc) ==
    IF exc = "TimeoutError" THEN "timeout"
    ELSE IF exc \in {"ClientError", "ContentTypeError"} THEN "connection"
    ELSE IF exc \in {"RuntimeError", "JSONDecodeError", "AttributeError"} THEN "unexpected"
    ELSE "uncaught"

\* the frames yielded by the code, as records
ErrorFrame(kind, text) == [type |-> "error", kind |-> kind, text |-> text, language |-> "None"]
TranscriptionFrame(transcript, language) ==
    [type |-> "transcription", kind |-> "ok", text |-> transcript, language |-> language]

\* mutant of UpstreamFrames: the non-200 branch returns without a frame
UpstreamFramesNone(error_text) == <<>>

\* lines 174-175: what the non-200 branch yields
UpstreamFrames(error_text) == <<ErrorFrame("upstream", error_text)>>

\* mutant of UpstreamLog: the status is left out of the log line
UpstreamLogNoStatus(status, error_text) ==
    [level |-> "error", kind |-> "upstream", status |-> 0, text |-> error_text]

\* line 172: the log record of the non-200 branch
UpstreamLog(status, error_text) ==
    [level |-> "error", kind |-> "upstream", status |-> status, text |-> error_text]

\* line 181
Transcript(payload) == IF payload.transcript = Absent THEN "" ELSE payload.transcript

\* line 182: `payload.get("language_code") or self._language_code`
ResponseLanguageCode(payload, current) ==
    IF payload.language_code \in {Absent, ""} THEN current ELSE payload.language_code

\* raising exc inside the try block: the handler logs and awaits stop_all_metrics
Raise(s, exc) ==
    IF Catch(exc) = "uncaught"
    THEN [s EXCEPT !.pc = "raised", !.err = exc]
    ELSE [s EXCEPT !.pc = "handler", !.err = Catch(exc),
                   !.log = [level |-> "error", kind |-> Catch(exc), status |-> 0,
                            text |-> IF Catch(exc) = "timeout" THEN "" ELSE exc]]

\* what the HTTP layer can raise while a request or a body read is pending
NetworkFailures == {"TimeoutError", "ClientError"}

\* run_stt, lines 136-145: the empty-segment return, or the session and the form
RunStt(audio) ==
    /\ sub.pc \in {"idle", "done"}
    /\ IF EmptySegment(audio)
       THEN /\ sub' = [IdleSub EXCEPT !.pc = "done", !.audio = audio,
                          !.log = [level |-> "warning", kind |-> "empty", status |-> 0,
                                   text |-> ""]]
            /\ UNCHANGED sessVars
       ELSE /\ EnsureSession.nCreated <= MaxSessions
            /\ session' = EnsureSession.session
            /\ own' = EnsureSession.own
            /\ nCreated' = EnsureSession.nCreated
            /\ sub' = [IdleSub EXCEPT !.pc = "starting", !.audio = audio,
                          !.session = EnsureSession.session, !.form = BuildForm(audio)]
            /\ UNCHANGED <<closed, engineClosed>>
    /\ UNCHANGED <<injected, extra_params, sentry, ctor, setVars, phase, closer>>

\* lines 160-169: both markers started, then session.post(); a closed session
\* makes post() raise RuntimeError("Session is closed")
Post ==
    /\ sub.pc = "starting"
    /\ LET s == [sub EXCEPT !.procRunning = TRUE, !.ttfbRunning = TRUE] IN
       sub' = IF sub.session \in closed
              THEN Raise(s, "RuntimeError")
              ELSE [s EXCEPT !.pc = "await_status", !.requests = @ + 1]
    /\ UNCHANGED <<injected, extra_params, sentry, ctor, sessVars, setVars, phase, closer>>

\* line 169: the response headers arrive
RecvStatus(status) ==
    /\ sub.pc = "await_status"
    /\ sub.session \notin closed
    /\ sub' = [sub EXCEPT !.status = status,
                          !.pc = IF status # OkStatus THEN "read_text" ELSE "read_json"]
    /\ UNCHANGED <<injected, extra_params, sentry, ctor, sessVars, setVars, phase, closer>>

\* mutant of NetworkFail: the timeout handler closes the session
NetworkFailClosing(exc) ==
    /\ sub.pc \in {"await_status", "read_text", "read_json"}
    /\ sub.session \in closed => exc = "ClientError"
    /\ sub' = Raise(sub, exc)
    /\ closed' = IF exc = "TimeoutError" THEN closed \cup {sub.session} ELSE closed
    /\ UNCHANGED <<injected, extra_params, sentry, ctor, session, own, nCreated, engineClosed, setVars, phase, closer>>

\* lines 164, 171, 177: the request or the body read fails; on a closed session
\* the pending read fails with a client error
NetworkFail(exc) ==
    /\ sub.pc \in {"await_status", "read_text", "read_json"}
    /\ sub.session \in closed => exc = "ClientError"
    /\ sub' = Raise(sub, exc)
    /\ UNCHANGED <<injected, extra_params, sentry, ctor, sessVars, setVars, phase, closer>>

\* lines 171-173: the error body is read and logged; stop_all_metrics is awaited
ReadText(error_text) ==
    /\ sub.pc = "read_text"
    /\ sub.session \notin closed
    /\ sub' = [sub EXCEPT !.pc = "upstream", !.error_text = error_text,
                          !.log = UpstreamLog(sub.status, error_text)]
    /\ UNCHANGED <<injected, extra_params, sentry, ctor, sessVars, setVars, phase, closer>>

\* mutant of StopAllMetrics: the processing marker is forgotten
StopAllMetricsOnlyTtfb(s) ==
    [s EXCEPT !.ttfbRunning = FALSE, !.ttfbStops = @ + 1]

\* stop_all_metrics: stop_ttfb_metrics and stop_processing_metrics
StopAllMetrics(s) ==
    [s EXCEPT !.ttfbRunning = FALSE, !.procRunning = FALSE,
              !.ttfbStops = @ + 1, !.procStops = @ + 1]

\* lines 173-174: markers stopped, the error frame yielded
YieldUpstream ==
    /\ sub.pc = "upstream"
    /\ sub' = [StopAllMetrics(sub) EXCEPT !.pc = "yielded_return",
                                         !.events = @ \o UpstreamFrames(sub.error_text)]
    /\ UNCHANGED <<injected, extra_params, sentry, ctor, sessVars, setVars, phase, closer>>

\* line 177: response.json() returns the parsed body or raises; the response
\* context is left and stop_ttfb_metrics is awaited
ReadJson(payload) ==
    /\ sub.pc = "read_json"
    /\ sub.session \notin closed
    /\ sub' = IF payload.kind = "content_type" THEN Raise(sub, "ContentTypeError")
              ELSE IF payload.kind = "not_json" THEN Raise(sub, "JSONDecodeError")
              ELSE [sub EXCEPT !.pc = "stop_ttfb", !.payload = payload]
    /\ UNCHANGED <<injected, extra_params, sentry, ctor, sessVars, setVars, phase, closer>>

\* lines 179-196: the time-to-first-byte marker stopped, the payload mapped and
\* the transcription frame yielded; payload.get on a non-object raises
YieldTranscription ==
    /\ sub.pc = "stop_ttfb"
    /\ LET s == [sub EXCEPT !.ttfbRunning = FALSE, !.ttfbStops = @ + 1] IN
       sub' = IF sub.payload.kind # "object"
              THEN Raise(s, "AttributeError")
              ELSE [s EXCEPT !.pc = "yielded",
                             !.events = @ \o <<TranscriptionFrame(
                                 Transcript(sub.payload),
                                 LanguageOrNone(ResponseLanguageCode(sub.payload,
                                                                     language_code)))>>]
    /\ UNCHANGED <<injected, extra_params, sentry, ctor, sessVars, setVars, phase, closer>>

\* the generator is exhausted: its locals are gone, what it emitted stays
Exhausted(s) ==
    [s EXCEPT !.pc = "done", !.session = NoSession, !.form = NoForm, !.status = 0,
              !.error_text = "", !.payload = NoPayload, !.err = "none"]

\* lines 198, 212: resumed after the transcription frame: the processing marker
\* stopped, the final None yielded, the generator exhausted
FinishSuccess ==
    /\ sub.pc = "yielded"
    /\ sub' = Exhausted([sub EXCEPT !.procRunning = FALSE, !.procStops = @ + 1])
    /\ UNCHANGED <<injected, extra_params, sentry, ctor, sessVars, setVars, phase, closer>>

\* lines 201-202, 205-206, 209-210: markers stopped, the error frame yielded
YieldError ==
    /\ sub.pc = "handler"
    /\ sub' = [StopAllMetrics(sub) EXCEPT !.pc = "yielded_error",
                                         !.events = @ \o <<ErrorFrame(sub.err, sub.log.text)>>]
    /\ UNCHANGED <<injected, extra_params, sentry, ctor, sessVars, setVars, phase, closer>>

\* lines 175, 212: resumed after an error frame: the return of the non-200
\* branch, or the final None of the handlers; the generator is exhausted
FinishError ==
    /\ sub.pc \in {"yielded_return", "yielded_error"}
    /\ sub' = Exhausted(sub)
    /\ UNCHANGED <<injected, extra_params, sentry, ctor, sessVars, setVars, phase, closer>>

SubStep ==
    \/ Post
    \/ \E status \in Statuses : RecvStatus(status)
    \/ \E exc \in NetworkFailures : NetworkFail(exc)
    \/ \E error_text \in ErrorBodies : ReadText(error_text)
    \/ YieldUpstream
    \/ \E payload \in Payloads : ReadJson(payload)
    \/ YieldTranscription
    \/ FinishSuccess
    \/ YieldError
    \/ FinishError

Next ==
    \/ Start
    \/ Stop
    \/ Cancel
    \/ \E p \in {"stop", "cancel"} : CloseDone(p)
    \/ OwnerClose
    \/ \E m \in Models : SetModel(m)
    \/ \E l \in Languages : SetLanguage(l)
    \/ \E audio \in Segments : RunStt(audio)
    \/ SubStep

Spec == Init /\ [][Next]_vars

\* The request form as a function of the engine's extra parameters and
\* settings: the engine is built with any mapping, its settings are changed
\* and run_stt builds the form.
InitForm ==
    /\ InitEngine
    /\ extra_params \in ExtraMappings
    /\ sentry = NoSentry
    /\ ctor = DefaultCtor

NextForm ==
    \/ \E m \in Models : SetModel(m)
    \/ \E l \in Languages : SetLanguage(l)
    \/ \E audio \in Segments : RunStt(audio)

SpecForm == InitForm /\ [][NextForm]_vars

\* ------------------------------------------------------------ __init__

\* Python truth of a string argument or environment value: None and "" are false
IsFalsy(v) == v \in {Absent, ""}

\* `a or b` on strings
Or(a, b) == IF IsFalsy(a) THEN b ELSE a

\* `extra_params or b`: None and {} are false
OrMapping(a, b) == IF ~a.passed \/ a.items = <<>> THEN b ELSE a.items

\* os.getenv(name, default)
Getenv(raw, default) == IF raw = Absent THEN default ELSE raw

\* base_url.rstrip("/") on the values used here
RstripSlash(url) ==
    IF url = "https://proxy.example/stt/" THEN "https://proxy.example/stt" ELSE url

\* _load_extra_params_from_env, lines 35-47: blank, unparsable and non-object
\* values give {}
_load_extra_params_from_env(raw) ==
    IF raw = "{\"with_timestamps\": true}"
    THEN <<[key |-> "with_timestamps",
            value |-> [type |-> "bool", str |-> "True", json |-> "true"]]>>
    ELSE <<>>

\* __init__, lines 79-92: the credential check and the resolved settings
Construct ==
    /\ ctor.state = "called"
    /\ LET a == ctor.args
           e == ctor.env
           resolved_api_key == Or(a.api_key, e.api_key)
       IN ctor' =
            IF IsFalsy(resolved_api_key)
            THEN [ctor EXCEPT !.state = "ValueError"]
            ELSE [ctor EXCEPT
                    !.state = "built",
                    !.resolved_api_key = resolved_api_key,
                    !.resolved_model =
                        Or(a.model, Getenv(e.model, SARVAM_STT_DEFAULT_MODEL)),
                    !.resolved_language =
                        _normalize_language(
                            Or(a.language, Getenv(e.language, SARVAM_STT_DEFAULT_LANGUAGE))),
                    !.resolved_base_url =
                        RstripSlash(
                            Or(a.base_url, Getenv(e.base_url, SARVAM_STT_DEFAULT_BASE_URL))),
                    !.resolved_extra_params =
                        OrMapping(a.extra_params, _load_extra_params_from_env(e.extra_params))]
    /\ UNCHANGED <<injected, extra_params, sentry, sessVars, setVars, phase, sub, closer>>

InitCtor ==
    /\ InitEngine
    /\ extra_params = NoExtraParams
    /\ sentry = NoSentry
    /\ ctor \in {FreshCtor(a, e) : a \in CtorArgs, e \in CtorEnvs}

NextCtor == Construct

SpecCtor == InitCtor /\ [][NextCtor]_vars

\* ---------------------------------------------- Sentry metrics (bot.py, tracing.py)

\* raw_value.strip().lower() on the values of EnabledValues
StripLower(raw) == IF raw = "TRUE " THEN "true" ELSE raw

\* .strip() on the values of DsnValues
Strip(raw) == IF raw = "  " THEN "" ELSE raw

Truthy == {"1", "true", "yes", "on"}
Falsy == {"0", "false", "no", "off"}

\* tracing.py:18-32
env_flag_enabled(raw, default) ==
    IF raw = Absent THEN default
    ELSE IF StripLower(raw) = "" THEN default
    ELSE IF StripLower(raw) \in Truthy THEN TRUE
    ELSE IF StripLower(raw) \in Falsy THEN FALSE
    ELSE default

\* _is_sentry_enabled: bot.py:38-43 and tracing.py:35-36
_is_sentry_enabled(module, raw) ==
    IF module = "bot"
    THEN IF raw = Absent THEN TRUE ELSE StripLower(raw) \in Truthy
    ELSE env_flag_enabled(raw, TRUE)

\* mutant of EnsureGuard: only the cached class is consulted
EnsureGuardClassOnly == sentry.cls # "None"

\* bot.py:63, tracing.py:56: `_SENTRY_METRICS_CLASS or _SENTRY_SETUP_ATTEMPTED`
EnsureGuard == sentry.cls # "None" \/ sentry.attempted

\* _ensure_sentry_metrics_class: the globals it leaves and what it returns;
\* "raised" when sentry_sdk.init rejects the DSN
_ensure_sentry_metrics_class ==
    IF EnsureGuard THEN [s |-> sentry, ret |-> sentry.cls]
    ELSE LET a == [sentry EXCEPT !.attempted = TRUE, !.attempts = @ + 1] IN
         IF ~_is_sentry_enabled(sentry.module, sentry.enabledRaw)
         THEN [s |-> a, ret |-> "None"]
         ELSE IF Strip(sentry.dsn) = "" THEN [s |-> a, ret |-> "None"]
         ELSE IF ~sentry.deps THEN [s |-> a, ret |-> "None"]
         ELSE IF sentry.dsn = "not-a-dsn"
         THEN [s |-> [a EXCEPT !.inits = @ + 1], ret |-> "raised"]
         ELSE [s |-> [a EXCEPT !.inits = @ + 1, !.cls = "SentryMetrics"],
               ret |-> "SentryMetrics"]

\* _create_sentry_metrics_instance (bot.py:109-113) and
\* create_sentry_metrics_instance (tracing.py:102-106)
CreateSentryMetricsInstance(module) ==
    /\ sentry.module = module
    /\ sentry.calls < MaxCalls
    /\ LET r == _ensure_sentry_metrics_class IN
       sentry' = [r.s EXCEPT !.calls = @ + 1,
                             !.last = IF r.ret = "raised" THEN "raised"
                                      ELSE IF r.ret = "None" THEN "None"
                                      ELSE "instance"]
    /\ UNCHANGED <<injected, extra_params, ctor, sessVars, setVars, phase, sub, closer>>

InitSentry ==
    /\ InitEngine
    /\ extra_params = NoExtraParams
    /\ sentry \in {FreshSentry(m, e, d, i) :
                      m \in SentryModules, e \in EnabledValues, d \in DsnValues,
                      i \in BOOLEAN}
    /\ ctor = DefaultCtor

NextSentry ==
    \/ CreateSentryMetricsInstance("bot")
    \/ CreateSentryMetricsInstance("tracing")

SpecSentry == InitSentry /\ [][NextSentry]_vars

\* ================================================================ claims

\* the generator has ended, by exhaustion or by an exception leaving it
Ended == sub.pc \in {"done", "raised"}

\* C1: a run_stt call on a non-empty segment never has more than one event to
\* its name, and when it has ended, whatever the HTTP call did, it has emitted
\* exactly one event, a transcription event or an error event.
C1_ExactlyOneEvent ==
    /\ Len(sub.events) <= 1
    /\ (Ended /\ Len(sub.audio) > 0) =>
          /\ Len(sub.events) = 1
          /\ sub.events[1].type \in {"transcription", "error"}

\* C1 witness: a call ended by a failure raised after the response was obtained
\* (payload.get on a JSON body that is not an object).
C1_Witness ==
    /\ sub.pc = "done"
    /\ sub.events = <<ErrorFrame("unexpected", "AttributeError")>>
    /\ sub.requests = 1

\* C2: in every engine state, a run_stt call on an empty segment ends at once:
\* no HTTP request, no session created or touched, no marker started, no event.
C2_EmptyShortCircuits ==
    [][(sub.pc \in {"idle", "done"} /\ sub'.pc # "idle" /\ sub' # sub
          /\ Len(sub'.audio) = 0)
       => /\ sub'.pc = "done"
          /\ sub'.requests = 0
          /\ sub'.events = <<>>
          /\ sub'.session = NoSession
          /\ ~sub'.ttfbRunning /\ ~sub'.procRunning
          /\ sub'.log.kind = "empty"
          /\ UNCHANGED sessVars]_vars

\* C2 witness: an empty segment was submitted to an engine that had no usable
\* session (its own was closed by stop or cancel), and none was created.
C2_Witness ==
    /\ sub.pc = "done"
    /\ sub.log.kind = "empty"
    /\ phase \in Terminal
    /\ nCreated = 1
    /\ ~SessionUsable

\* C3: no failure leaves run_stt as an exception: each reaches one of the three
\* handlers, is surfaced as an error event, and the generator goes on to its
\* end, after which the next segment can be submitted.
C3_NoUncaughtFault ==
    /\ sub.pc # "raised"
    /\ sub.pc = "handler" =>
          /\ sub.err \in {"timeout", "connection", "unexpected"}
          /\ sub.events = <<>>
          /\ ENABLED YieldError
    /\ sub.pc = "yielded_error" =>
          /\ sub.events = <<ErrorFrame(sub.err, sub.log.text)>>
          /\ ENABLED FinishError
    /\ (sub.pc = "done" /\ sub.log.level = "error") =>
          /\ Len(sub.events) = 1
          /\ sub.events[1].type = "error"
          /\ ENABLED RunStt(<<>>)
          /\ nCreated < MaxSessions => ENABLED RunStt(<<1>>)

\* C3 witness: a malformed payload (a 200 body that is not JSON) ended as an
\* error event.
C3_Witness ==
    /\ sub.pc = "done"
    /\ sub.events = <<ErrorFrame("unexpected", "JSONDecodeError")>>

\* a non-200 status has been received by the call in progress
NonOkResponse == sub.status # 0 /\ sub.status # OkStatus

TimeoutFrame == ErrorFrame("timeout", "")

\* C5: a timed-out submission has issued one HTTP request and yields the timeout
\* event; none of its steps, from the timeout to its end, changes the session
\* handle, the ownership flag or any session's state; and the submission that
\* follows it gets the engine's session whenever that one is still open,
\* creating none.
C5_TimeoutKeepsSession ==
    [][/\ (sub'.err = "timeout" /\ sub' # sub) =>
             /\ sub'.requests = 1
             /\ sub'.pc = "yielded_error" => sub'.events = <<TimeoutFrame>>
             /\ UNCHANGED sessVars
       /\ (sub.err = "timeout" /\ sub' # sub) => UNCHANGED sessVars
       /\ (sub.pc = "done" /\ sub.events = <<TimeoutFrame>> /\ sub'.pc = "starting"
             /\ SessionUsable) =>
             /\ sub'.session = session
             /\ UNCHANGED sessVars]_vars

\* C5 witness: a submission on an engine-created session has timed out and
\* ended, and that session is still the engine's open session.
C5_Witness ==
    /\ sub.pc = "done"
    /\ sub.events = <<TimeoutFrame>>
    /\ sub.requests = 1
    /\ own
    /\ SessionUsable
    /\ session \in Created(nCreated)

\* the engine-created sessions that are open
OpenCreated == Created(nCreated) \ closed

\* C6 as stated: when cancel() was issued while the submission was pending, the
\* submission ends in a failure, and once it and every stop()/cancel() have
\* finished the engine holds no open session.
C6_Original ==
    (sub.cancelHit # "no" /\ sub.pc = "done" /\ closer.stop = "idle"
       /\ closer.cancel = "idle") =>
        /\ Len(sub.events) = 1
        /\ sub.events[1].type = "error"
        /\ ~(session # NoSession /\ session \notin closed)

\* C6 amended: when cancel() is issued while a submission is pending on the
\* session the engine holds as its own open session, so that cancel() calls
\* close on it, the submission cannot reach a transcription event, always has
\* a step to take, and ends with one error event; the awaited close returns
\* whatever the submission's position; and once both have finished
\* self._session is None and the flag is false, so that a further stop() or
\* cancel() closes nothing.
C6_CancelWhilePending ==
    /\ sub.cancelHit = "closed" =>
          /\ sub.pc \notin {"stop_ttfb", "yielded", "upstream", "yielded_return", "raised"}
          /\ sub.pc # "done" => ENABLED SubStep
          /\ sub.pc = "done" => /\ Len(sub.events) = 1
                                /\ sub.events[1].type = "error"
    /\ closer.cancel = "closing" => ENABLED CloseDone("cancel")
    /\ (sub.cancelHit = "closed" /\ sub.pc = "done" /\ closer.stop = "idle"
          /\ closer.cancel = "idle") =>
          /\ session = NoSession
          /\ ~own
          /\ ~(ENABLED (Stop /\ closed' # closed))
          /\ ~(ENABLED (Cancel /\ closed' # closed))

\* C6 witness: cancel() closed the session of a pending submission and returned
\* while the submission was still awaiting the response.
C6_Witness ==
    /\ sub.cancelHit = "closed"
    /\ sub.pc = "await_status"
    /\ closer.cancel = "idle"
    /\ session = NoSession

\* C7: the engine never calls close on the injected session.
C7_InjectedNeverClosed == InjectedId \notin engineClosed

\* C7 witness: with an injected session that its owner has closed, the engine
\* has created a session of its own and closed it.
C7_Witness ==
    /\ injected
    /\ InjectedId \in closed
    /\ engineClosed # {}
    /\ phase \in Terminal

\* C8 as stated: at most one engine-created session is open at a time, and an
\* open engine-created session is the one the engine refers to and owns, so
\* that stop() or cancel() will close it.
C8_TornDownOnce ==
    /\ Cardinality(OpenCreated) <= 1
    /\ \A s \in OpenCreated : s = session /\ own

\* C9 as stated: a submission never starts on a closed session, and none
\* creates a session after stop() or cancel() has been called.
C9_NoSessionAfterEnd ==
    [][(sub'.pc = "starting" /\ sub.pc # "starting") =>
          /\ sub'.session \notin closed'
          /\ phase \in Terminal => nCreated' = nCreated]_vars

\* C10 as stated: the event of a submission is built from the settings the
\* request was built from at its start: the language it falls back to, when the
\* response has no language_code, is the language_code field of the form.
C10_SettingsSnapshot ==
    sub.pc = "yielded" =>
        sub.events = <<TranscriptionFrame(
            Transcript(sub.payload),
            LanguageOrNone(ResponseLanguageCode(sub.payload, sub.form.language_code)))>>


\* a step of run_stt that maps a parsed object body to its frame
MapsObject == sub.pc = "stop_ttfb" /\ sub.payload.kind = "object" /\ sub' # sub

\* C11: a 200 response with a parsable object body yields a transcription event
\* whose transcript is the response's transcript, or "" when absent, and whose
\* language is the response's language_code, or the language code the request
\* was sent with when the field is absent (read for supported codes only; the
\* unsupported ones are C12's case).
C11_TranscriptionEvent ==
    (sub.pc = "yielded" /\ sub.payload.language_code \in Languages \cup {Absent}) =>
        /\ Len(sub.events) = 1
        /\ sub.events[1].type = "transcription"
        /\ sub.events[1].text =
              (IF sub.payload.transcript = Absent THEN "" ELSE sub.payload.transcript)
        /\ sub.events[1].language =
              (IF sub.payload.language_code = Absent THEN sub.form.language_code
               ELSE sub.payload.language_code)

\* C12: a parsed object body whose language_code is present and not a supported
\* language is still mapped to a transcription event, with the transcript
\* unchanged and the language None.
C12_UnknownLanguage ==
    [][(MapsObject /\ sub.payload.language_code \notin Languages \cup {Absent, ""}) =>
          /\ sub'.pc = "yielded"
          /\ Len(sub'.events) = 1
          /\ sub'.events[1].type = "transcription"
          /\ sub'.events[1].text =
                (IF sub.payload.transcript = Absent THEN "" ELSE sub.payload.transcript)
          /\ sub'.events[1].language = "None"]_vars

\* C12 witness: "hello world" with language_code "xx-ZZ" was yielded with
\* language None.
C12_Witness ==
    /\ sub.pc = "yielded"
    /\ sub.payload.language_code = "xx-ZZ"
    /\ sub.events = <<TranscriptionFrame("hello world", "None")>>

\* the exceptions a 200 response with an unparsable body raises: wrong content
\* type, not JSON, JSON that is not an object
MalformedCauses == {"ContentTypeError", "JSONDecodeError", "AttributeError"}

\* C15: a 200 response whose body cannot be parsed as an object yields a failure
\* of a kind that is none of the kinds produced for a timeout, a transport error
\* or a non-success status.
C15_MalformedDistinct ==
    (sub.pc = "yielded_error" /\ sub.status = OkStatus /\ sub.log.text \in MalformedCauses) =>
        /\ Len(sub.events) = 1
        /\ sub.events[1].type = "error"
        /\ sub.events[1].kind \notin {"timeout", "connection", "upstream"}

\* a step of run_stt that emits an error event
EmitsError ==
    /\ Len(sub'.events) = Len(sub.events) + 1
    /\ sub'.events[Len(sub'.events)].type = "error"

\* C16: whenever run_stt emits an error event (non-200 status, timeout, transport
\* error, unexpected exception), both markers have been stopped by then.
C16_StoppedBeforeError ==
    [][EmitsError =>
          /\ ~sub'.ttfbRunning /\ sub'.ttfbStops >= 1
          /\ ~sub'.procRunning /\ sub'.procStops >= 1]_vars

\* C16 witness: the unexpected-exception handler has emitted its error event
\* with both markers stopped.
C16_Witness ==
    /\ sub.pc = "yielded_error"
    /\ sub.err = "unexpected"
    /\ sub.events[1].type = "error"
    /\ ~sub.ttfbRunning /\ ~sub.procRunning

\* C17: when a submission that started the markers has finished, each marker
\* has been stopped exactly once and neither is running.
C17_StoppedExactlyOnce ==
    (sub.pc = "done" /\ Len(sub.audio) > 0) =>
        /\ ~sub.ttfbRunning /\ ~sub.procRunning
        /\ sub.ttfbStops = 1
        /\ sub.procStops = 1

\* C18: on a successful submission the time-to-first-byte marker is stopped once
\* the status is known, before the body is read, and the processing marker is
\* stopped by the time the transcription event is handed downstream.
C18_StoppedEarly ==
    /\ (sub.pc = "read_json" /\ sub.status = OkStatus) => ~sub.ttfbRunning
    /\ sub.pc = "yielded" => ~sub.procRunning

\* a step of run_stt that builds the request form
BuildsForm == sub.pc \in {"idle", "done"} /\ sub'.pc = "starting"

\* an entry the request is to carry: its key is not reserved and its value is
\* neither null nor empty
Attachable(entry) ==
    /\ entry.key \notin {"file", "language_code", "model"}
    /\ entry.value.type # "NoneType"
    /\ ~(entry.value.type = "str" /\ entry.value.str = "")
    /\ entry.value.json \notin {"[]", "{}"}

\* C19: the form built by run_stt has one extra field for each entry whose key
\* is not reserved and whose value is neither null nor empty, no other extra
\* field, and the reserved fields carry the segment, the current language and
\* the current model.
C19_ExtraFields ==
    [][BuildsForm =>
          /\ \A k \in ExtraKeys :
                Cardinality({i \in DOMAIN sub'.form.extra : sub'.form.extra[i].name = k})
                    = IF \E j \in DOMAIN extra_params :
                             extra_params[j].key = k /\ Attachable(extra_params[j])
                      THEN 1 ELSE 0
          /\ sub'.form.file = sub'.audio
          /\ sub'.form.language_code = language_code
          /\ sub'.form.model = model_name]_vars

\* C20: across the calls that create a metrics instance, the Sentry
\* initialization is attempted at most once; after an attempt that produced no
\* class, a call returns no metrics and attempts nothing; after a success, a
\* call returns an instance of the same class and attempts nothing.
C20_AttemptedOnce ==
    [][sentry'.calls = sentry.calls + 1 =>
          /\ sentry'.attempts <= 1
          /\ sentry'.inits <= 1
          /\ (sentry.attempts >= 1 /\ sentry.cls = "None") =>
                /\ sentry'.last = "None"
                /\ sentry'.attempts = sentry.attempts
                /\ sentry'.inits = sentry.inits
                /\ sentry'.cls = "None"
          /\ sentry.cls # "None" =>
                /\ sentry'.last = "instance"
                /\ sentry'.attempts = sentry.attempts
                /\ sentry'.inits = sentry.inits
                /\ sentry'.cls = sentry.cls]_vars

\* C20 witness: with Sentry disabled and a DSN set, the first call attempted the
\* setup and later calls returned no metrics without a second attempt.
C20_Witness ==
    /\ sentry.calls = MaxCalls
    /\ sentry.attempts = 1
    /\ sentry.inits = 0
    /\ sentry.enabledRaw = "0"
    /\ sentry.dsn = "https://k@sentry.example/1"
    /\ sentry.cls = "None"
    /\ sentry.last = "None"

\* C21: for credential, base URL, model, language and extra parameters, a value
\* passed to the constructor is the one the engine is built with, whatever the
\* environment holds, also when the value passed is an empty string or an empty
\* mapping; and construction fails when neither argument nor environment gives a
\* credential.
C21_ExplicitPrecedence ==
    ctor.state # "called" =>
        /\ (ctor.args.api_key = Absent /\ ctor.env.api_key = Absent) =>
              ctor.state = "ValueError"
        /\ ctor.state = "built" =>
              /\ ctor.args.api_key # Absent =>
                    ctor.resolved_api_key = ctor.args.api_key
              /\ ctor.args.model # Absent =>
                    ctor.resolved_model = ctor.args.model
              /\ ctor.args.language \notin {Absent, ""} =>
                    ctor.resolved_language = ctor.args.language
              /\ ctor.args.language = "" =>
                    ctor.resolved_language = SARVAM_STT_DEFAULT_LANGUAGE
              /\ ctor.args.base_url \notin {Absent, "https://proxy.example/stt/"} =>
                    ctor.resolved_base_url = ctor.args.base_url
              /\ ctor.args.base_url = "https://proxy.example/stt/" =>
                    ctor.resolved_base_url = "https://proxy.example/stt"
              /\ ctor.args.extra_params.passed =>
                    ctor.resolved_extra_params = ctor.args.extra_params.items

\* C22: in every reachable state _own_session is true exactly when _session is
\* a session the engine created (so never while _session is unset or is the
\* injected session), and the engine calls close only on the session it refers
\* to while the flag is true.
C22_OwnershipFlag ==
    /\ [](own <=> session \in Created(nCreated))
    /\ [](own => session \notin {NoSession, InjectedId})
    /\ [][engineClosed' # engineClosed =>
             /\ own
             /\ session \in Created(nCreated)
             /\ engineClosed' = engineClosed \cup {session}]_vars

\* C22 witness: an engine built with an injected session, whose owner closed
\* it, created a session of its own, holds it with the flag set, and stop() has
\* called close on it.
C22_Witness ==
    /\ injected
    /\ own
    /\ session \in Created(nCreated)
    /\ session \in engineClosed
    /\ closer.stop = "closing"

====
